---------------------------- MODULE Spec2Model ----------------------------
(***************************************************************************)
(* ops-tool: `use <tool> <version> [--force]` (src/src/main.rs).           *)
(*                                                                         *)
(* The state is the part of the filesystem under the executable directory  *)
(* that one tool owns (its versions directory, its versioned binaries and  *)
(* its launcher symlink) together with the position and locals of each     *)
(* running invocation of switch_or_download.  An invocation is a separate  *)
(* OS process: every filesystem call of the code is one atomic step.       *)
(***************************************************************************)
EXTENDS Integers, Sequences, FiniteSets, TLC

VARIABLES
    versions_dir,   \* does <B>/<tool>-versions exist
    bin,            \* version -> the file at <B>/<tool>-versions/<tool>-<version>
    launcher,       \* the entry at <B>/<tool>
    pc,             \* invocation -> position in switch_or_download
    ver,            \* invocation -> its version argument
    force,          \* invocation -> its --force flag
    resp,           \* invocation -> the HTTP response it holds
    offset,         \* invocation -> chunks written through its `dest` handle
    result,         \* invocation -> how it ended ("" while running)
    failedAt,       \* invocation -> the step at which an error or a signal ended it
    fetched,        \* invocation -> it called download()
    created,        \* invocation -> it opened (created/truncated) the binary
    wroteAll,       \* invocation -> write_to_file returned Ok
    start,          \* invocation -> the filesystem when it started
    runs,           \* invocation slot -> invocations started in it
    last,           \* the previous finished invocation (sequential runs)
    arg,            \* the tool and version whose names and URLs are built
    link_name,      \* the file name of the launcher's target, as a string
    reported,       \* what `status` printed
    url             \* the download URL built for kops

textvars == <<arg, link_name, reported, url>>

vars == <<versions_dir, bin, launcher, pc, ver, force, resp, offset, result, failedAt,
          fetched, created, wroteAll, start, runs, last, arg, link_name, reported, url>>

-----------------------------------------------------------------------------
(* Bounds *)

\* chunks (reads of the 8096-byte buffer) the artifact's stream yields
ArtifactLen == 2

\* invocations run one after the other in the sequential specification
MaxRuns == 2

\* largest patch number of the versions whose names and URLs are built
MaxPatch == 1

-----------------------------------------------------------------------------
(* Values *)

Procs == {1, 2}

\* version arguments: 1.5.0, 1.20.0 and "1.5", which is no semantic version
Versions == {<<1, 5, 0>>, <<1, 20, 0>>, <<1, 5>>}

NoVersion == <<>>

\* Permissions::from_mode(0o700)
ExecMode == 448

\* the mode File::create gives a new file (0o666 under umask 022)
CreateMode == 420

\* a read-only mode a binary may have been given externally (0o400)
ReadOnlyMode == 256

\* the artifact's bytes, as the chunks read() returns in order
Artifact == [i \in 1..ArtifactLen |-> i]

NoFile == [exists |-> FALSE, data |-> <<>>, mode |-> 0]

File(d, m) == [exists |-> TRUE, data |-> d, mode |-> m]

NoLink == [kind |-> "absent", target |-> NoVersion]

RegularFile == [kind |-> "file", target |-> NoVersion]

\* get_bin_path(tool, version) as the target of a symlink
Symlink(v) == [kind |-> "symlink", target |-> v]

NoResp == [status |-> 0, length |-> "", content_type |-> "", head |-> ""]

Resp(s, l, c, h) == [status |-> s, length |-> l, content_type |-> c, head |-> h]

\* what client.get(url).send() yields: the responses of the upstream server
\* (status, Content-Length, Content-Type, and for a zip body what its stream
\* starts with: a local file header, the central directory, or anything else,
\* such as the end record of an archive without entries), or no response at
\* all (status 0: the request itself failed)
Responses ==
    { Resp(200, "ok", "application/octet-stream", ""),
      Resp(200, "ok", "application/zip", "file"),
      Resp(200, "ok", "application/zip", "central"),
      Resp(200, "ok", "application/zip", "other"),
      Resp(404, "ok", "text/html", ""),
      Resp(500, "ok", "text/html", ""),
      Resp(200, "", "application/octet-stream", ""),
      Resp(200, "invalid", "application/octet-stream", ""),
      Resp(200, "ok", "", ""),
      Resp(0, "", "", "") }

Snapshot == [versions_dir |-> versions_dir, bin |-> bin, launcher |-> launcher]

NoSnapshot == [versions_dir |-> FALSE, bin |-> [v \in Versions |-> NoFile], launcher |-> NoLink]

NoLast == [ver |-> NoVersion, force |-> FALSE, result |-> "", at |-> "", wrote |-> FALSE]

NoArg == [tool |-> "", version |-> [major |-> 0, minor |-> 0, patch |-> 0, pre |-> <<>>]]

NoReport == [tool |-> <<>>, version |-> <<>>]

-----------------------------------------------------------------------------
(* Pure helpers *)

\* semver: major.minor.patch
ValidSemver(v) == Len(v) = 3

\* owner write bit of a mode
OwnerWritable(m) == (m \div 128) % 2 = 1

\* Path::exists: follows symlinks, false for a symlink whose target is missing
PathExists(l, b) ==
    \/ l.kind = "file"
    \/ l.kind = "symlink" /\ b[l.target].exists

\* a handle opened in append mode: every write lands at the end of the file
WriteAppend(d, k) == Append(d, Artifact[k + 1])

\* write_all at handle position k (0-based) of chunk k+1; a position beyond
\* the end of the file leaves a zero-filled hole
WriteAt(d, k) ==
    [i \in 1..(IF Len(d) > k + 1 THEN Len(d) ELSE k + 1) |->
        IF i = k + 1 THEN Artifact[k + 1]
        ELSE IF i <= Len(d) THEN d[i] ELSE 0]

-----------------------------------------------------------------------------
(* Initial states *)

\* a versioned binary before the first invocation: absent, installed, installed
\* with its permissions changed, or cut short and read-only
InitFiles ==
    {NoFile, File(Artifact, ExecMode), File(Artifact, CreateMode),
     File(SubSeq(Artifact, 1, 1), ReadOnlyMode)}

InitLinks == {NoLink, RegularFile} \cup {Symlink(v) : v \in Versions}

InitFilesystem ==
    /\ bin \in [Versions -> InitFiles]
    /\ \A v \in Versions : ~ValidSemver(v) => ~bin[v].exists
    /\ versions_dir \in BOOLEAN
    /\ (\E v \in Versions : bin[v].exists) => versions_dir
    /\ launcher \in InitLinks

InitProcs ==
    /\ pc = [p \in Procs |-> "idle"]
    /\ ver = [p \in Procs |-> NoVersion]
    /\ force = [p \in Procs |-> FALSE]
    /\ resp = [p \in Procs |-> NoResp]
    /\ offset = [p \in Procs |-> 0]
    /\ result = [p \in Procs |-> ""]
    /\ failedAt = [p \in Procs |-> ""]
    /\ fetched = [p \in Procs |-> FALSE]
    /\ created = [p \in Procs |-> FALSE]
    /\ wroteAll = [p \in Procs |-> FALSE]
    /\ start = [p \in Procs |-> NoSnapshot]
    /\ runs = [p \in Procs |-> 0]
    /\ last = NoLast

Init ==
    /\ InitFilesystem
    /\ InitProcs
    /\ arg = NoArg
    /\ link_name = <<>>
    /\ reported = NoReport
    /\ url = <<>>

-----------------------------------------------------------------------------
(* switch_or_download, one action per step *)

\* an Err returned through `?` up to main: the process exits
Fail(p, e) ==
    /\ pc' = [pc EXCEPT ![p] = "failed"]
    /\ result' = [result EXCEPT ![p] = e]
    /\ failedAt' = [failedAt EXCEPT ![p] = pc[p]]

\* main.rs:80-84: the version argument is taken verbatim
Begin(p, v, f) ==
    /\ pc[p] = "idle"
    /\ pc' = [pc EXCEPT ![p] = "mkdir"]
    /\ ver' = [ver EXCEPT ![p] = v]
    /\ force' = [force EXCEPT ![p] = f]
    /\ resp' = [resp EXCEPT ![p] = NoResp]
    /\ offset' = [offset EXCEPT ![p] = 0]
    /\ result' = [result EXCEPT ![p] = ""]
    /\ failedAt' = [failedAt EXCEPT ![p] = ""]
    /\ fetched' = [fetched EXCEPT ![p] = FALSE]
    /\ created' = [created EXCEPT ![p] = FALSE]
    /\ wroteAll' = [wroteAll EXCEPT ![p] = FALSE]
    /\ start' = [start EXCEPT ![p] = Snapshot]
    /\ runs' = [runs EXCEPT ![p] = @ + 1]
    /\ UNCHANGED <<versions_dir, bin, launcher, last, textvars>>

\* one invocation after the other: a single shell
Use(p) ==
    /\ p = 1
    /\ runs[p] < MaxRuns
    /\ \E v \in Versions, f \in BOOLEAN : Begin(p, v, f)

\* two shells, one invocation each, at the same time; the shell whose
\* invocation starts first is called 1
UseConcurrently(p) ==
    /\ runs[p] < 1
    /\ p = 2 => runs[1] = 1
    /\ \E v \in Versions, f \in BOOLEAN : Begin(p, v, f)

\* main.rs:86-90
CreateVersionsDir(p) ==
    /\ pc[p] = "mkdir"
    /\ versions_dir' = TRUE
    /\ pc' = [pc EXCEPT ![p] = "check"]
    /\ UNCHANGED <<bin, launcher, ver, force, resp, offset, result, failedAt, fetched,
                   created, wroteAll, start, runs, last, textvars>>

\* a presence check that always fetches
NeedsFetchAlways(p) == TRUE

\* a presence check that forgets the force flag
NeedsFetchIgnoringForce(p) == ~bin[ver[p]].exists

\* a presence check that also wants the launcher to point at the binary, as
\* a marker of a completed installation
NeedsFetchUnlessLinked(p) ==
    ~bin[ver[p]].exists \/ force[p] \/ launcher # Symlink(ver[p])

\* main.rs:93: !bin_path.exists() || force
NeedsFetch(p) == ~bin[ver[p]].exists \/ force[p]

\* a presence check that takes the old launcher away before it fetches
CheckLocalPresenceUnlinking(p) ==
    /\ pc[p] = "check"
    /\ pc' = [pc EXCEPT ![p] = IF NeedsFetch(p) THEN "download" ELSE "chmod"]
    /\ launcher' = IF NeedsFetch(p) THEN NoLink ELSE launcher
    /\ UNCHANGED <<versions_dir, bin, ver, force, resp, offset, result, failedAt,
                   fetched, created, wroteAll, start, runs, last, textvars>>

\* a presence check that opens the destination file as soon as it decides to
\* fetch, before the fetch
CheckLocalPresenceOpeningFile(p) ==
    /\ pc[p] = "check"
    /\ pc' = [pc EXCEPT ![p] = IF NeedsFetch(p) THEN "download" ELSE "chmod"]
    /\ bin' = IF NeedsFetch(p) /\ OwnerWritable(bin[ver[p]].mode)
              THEN [bin EXCEPT ![ver[p]] = File(<<>>, @.mode)]
              ELSE bin
    /\ UNCHANGED <<versions_dir, launcher, ver, force, resp, offset, result, failedAt,
                   fetched, created, wroteAll, start, runs, last, textvars>>

\* main.rs:92-98, 120-122
CheckLocalPresence(p) ==
    /\ pc[p] = "check"
    /\ pc' = [pc EXCEPT ![p] = IF NeedsFetch(p) THEN "download" ELSE "chmod"]
    /\ UNCHANGED <<versions_dir, bin, launcher, ver, force, resp, offset, result, failedAt,
                   fetched, created, wroteAll, start, runs, last, textvars>>

\* tool.url(&version, os, arch): rejects a version that is no semantic version
UrlError(v) == IF ValidSemver(v) THEN "" ELSE "InvalidVersion"

\* main.rs:173-199: the checks of download() on the response, in order
DownloadError(r) ==
    IF r.status = 0 THEN "RequestError"
    ELSE IF r.status = 404 THEN "VersionNotAvailable"
    ELSE IF r.status # 200 THEN "UnexpectedStatus"
    ELSE IF r.length = "" THEN "MissingLength"
    ELSE IF r.length # "ok" THEN "InvalidLength"
    ELSE IF r.content_type = "" THEN "MissingContentType"
    ELSE ""

\* main.rs:99-100
Download(p) ==
    /\ pc[p] = "download"
    /\ fetched' = [fetched EXCEPT ![p] = UrlError(ver[p]) = ""]
    /\ \/ /\ UrlError(ver[p]) # ""
          /\ Fail(p, UrlError(ver[p]))
          /\ UNCHANGED resp
       \/ /\ UrlError(ver[p]) = ""
          /\ \E r \in Responses :
                IF DownloadError(r) # ""
                THEN Fail(p, DownloadError(r)) /\ UNCHANGED resp
                ELSE /\ pc' = [pc EXCEPT ![p] = "normalize"]
                     /\ resp' = [resp EXCEPT ![p] = r]
                     /\ UNCHANGED <<result, failedAt>>
    /\ UNCHANGED <<versions_dir, bin, launcher, ver, force, offset,
                   created, wroteAll, start, runs, last, textvars>>

\* zip::read::read_zipfile_from_stream on the head of the stream:
\* Ok(Some(file)), Ok(None) when no file comes before the central directory,
\* Err(ZipError) otherwise
ReadZipfile(h) ==
    IF h = "file" THEN "Some" ELSE IF h = "central" THEN "None" ELSE "Err"

\* main.rs:102-109: read_zipfile_from_stream(..)?.unwrap() on a zip body;
\* afterwards `res` is the byte stream of the artifact
Normalize(p) ==
    /\ pc[p] = "normalize"
    /\ IF resp[p].content_type = "application/zip" /\ ReadZipfile(resp[p].head) = "Err"
       THEN /\ Fail(p, "ZipError")
            /\ UNCHANGED resp
       ELSE IF resp[p].content_type = "application/zip" /\ ReadZipfile(resp[p].head) = "None"
       THEN /\ pc' = [pc EXCEPT ![p] = "panicked"]
            /\ result' = [result EXCEPT ![p] = "Panic"]
            /\ UNCHANGED <<failedAt, resp>>
       ELSE /\ pc' = [pc EXCEPT ![p] = "create"]
            /\ resp' = [resp EXCEPT ![p] = NoResp]
            /\ UNCHANGED <<result, failedAt>>
    /\ UNCHANGED <<versions_dir, bin, launcher, ver, force, offset,
                   fetched, created, wroteAll, start, runs, last, textvars>>

\* main.rs:205: File::create: O_CREAT | O_TRUNC, the handle at position 0
FileCreate(p) ==
    /\ pc[p] = "create"
    /\ IF ~versions_dir \/ (bin[ver[p]].exists /\ ~OwnerWritable(bin[ver[p]].mode))
       THEN /\ Fail(p, "IoError")
            /\ UNCHANGED <<bin, created, offset>>
       ELSE /\ bin' = [bin EXCEPT ![ver[p]] =
                         File(<<>>, IF @.exists THEN @.mode ELSE CreateMode)]
            /\ created' = [created EXCEPT ![p] = TRUE]
            /\ offset' = [offset EXCEPT ![p] = 0]
            /\ pc' = [pc EXCEPT ![p] = "write"]
            /\ UNCHANGED <<result, failedAt>>
    /\ UNCHANGED <<versions_dir, launcher, ver, force, resp, fetched,
                   wroteAll, start, runs, last, textvars>>

\* a copy loop that deletes the partial file when the stream fails
WriteChunkCleaningUp(p) ==
    /\ pc[p] = "write"
    /\ \/ /\ offset[p] < ArtifactLen                      \* read() returned n > 0
          /\ bin' = [bin EXCEPT ![ver[p]] =
                        File(WriteAt(@.data, offset[p]), @.mode)]
          /\ offset' = [offset EXCEPT ![p] = @ + 1]
          /\ UNCHANGED <<pc, result, failedAt, wroteAll>>
       \/ /\ offset[p] = ArtifactLen                      \* read() returned 0
          /\ pc' = [pc EXCEPT ![p] = "chmod"]
          /\ wroteAll' = [wroteAll EXCEPT ![p] = TRUE]
          /\ UNCHANGED <<bin, offset, result, failedAt>>
       \/ /\ offset[p] < ArtifactLen                      \* read() returned Err
          /\ Fail(p, "IoError")
          /\ bin' = [bin EXCEPT ![ver[p]] = NoFile]
          /\ UNCHANGED <<offset, wroteAll>>
    /\ UNCHANGED <<versions_dir, launcher, ver, force, resp, fetched,
                   created, start, runs, last, textvars>>

\* a copy loop that leaves the loop on a stream error instead of returning it
WriteChunkBreakingOnError(p) ==
    /\ pc[p] = "write"
    /\ \/ /\ offset[p] < ArtifactLen                      \* read() returned n > 0
          /\ bin' = [bin EXCEPT ![ver[p]] =
                        File(WriteAt(@.data, offset[p]), @.mode)]
          /\ offset' = [offset EXCEPT ![p] = @ + 1]
          /\ UNCHANGED <<pc, result, failedAt, wroteAll>>
       \/ /\ offset[p] = ArtifactLen                      \* read() returned 0
          /\ pc' = [pc EXCEPT ![p] = "chmod"]
          /\ wroteAll' = [wroteAll EXCEPT ![p] = TRUE]
          /\ UNCHANGED <<bin, offset, result, failedAt>>
       \/ /\ offset[p] < ArtifactLen                      \* read() returned Err
          /\ pc' = [pc EXCEPT ![p] = "chmod"]
          /\ UNCHANGED <<bin, offset, wroteAll, result, failedAt>>
    /\ UNCHANGED <<versions_dir, launcher, ver, force, resp, fetched,
                   created, start, runs, last, textvars>>

\* main.rs:209-217: one turn of the copy loop
WriteChunk(p) ==
    /\ pc[p] = "write"
    /\ \/ /\ offset[p] < ArtifactLen                      \* read() returned n > 0
          /\ bin' = [bin EXCEPT ![ver[p]] =
                        File(WriteAt(@.data, offset[p]), @.mode)]
          /\ offset' = [offset EXCEPT ![p] = @ + 1]
          /\ UNCHANGED <<pc, result, failedAt, wroteAll>>
       \/ /\ offset[p] = ArtifactLen                      \* read() returned 0
          /\ pc' = [pc EXCEPT ![p] = "chmod"]
          /\ wroteAll' = [wroteAll EXCEPT ![p] = TRUE]
          /\ UNCHANGED <<bin, offset, result, failedAt>>
       \/ /\ offset[p] < ArtifactLen                      \* read() returned Err
          /\ Fail(p, "IoError")
          /\ UNCHANGED <<bin, offset, wroteAll>>
    /\ UNCHANGED <<versions_dir, launcher, ver, force, resp, fetched,
                   created, start, runs, last, textvars>>

\* permissions set inside the fetch branch only, skipped on the fast path
SetPermissionsAfterFetchOnly(p) ==
    /\ pc[p] = "chmod"
    /\ bin' = [bin EXCEPT ![ver[p]] =
                 IF fetched[p] THEN File(@.data, ExecMode) ELSE @]
    /\ pc' = [pc EXCEPT ![p] = "exists"]
    /\ UNCHANGED <<versions_dir, launcher, ver, force, resp, offset, result, failedAt,
                   fetched, created, wroteAll, start, runs, last, textvars>>

\* main.rs:124: set_permissions(&bin_path, 0o700)
SetPermissions(p) ==
    /\ pc[p] = "chmod"
    /\ IF bin[ver[p]].exists
       THEN /\ bin' = [bin EXCEPT ![ver[p]] = File(@.data, ExecMode)]
            /\ pc' = [pc EXCEPT ![p] = "exists"]
            /\ UNCHANGED <<result, failedAt>>
       ELSE /\ Fail(p, "IoError")
            /\ UNCHANGED bin
    /\ UNCHANGED <<versions_dir, launcher, ver, force, resp, offset, fetched,
                   created, wroteAll, start, runs, last, textvars>>

\* main.rs:224: link_path.exists()
LinkExists(p) ==
    /\ pc[p] = "exists"
    /\ pc' = [pc EXCEPT ![p] = IF PathExists(launcher, bin) THEN "remove" ELSE "symlink"]
    /\ UNCHANGED <<versions_dir, bin, launcher, ver, force, resp, offset, result, failedAt,
                   fetched, created, wroteAll, start, runs, last, textvars>>

\* main.rs:225: remove_file(link_path)?
RemoveLink(p) ==
    /\ pc[p] = "remove"
    /\ IF launcher.kind = "absent"
       THEN /\ Fail(p, "IoError")
            /\ UNCHANGED launcher
       ELSE /\ launcher' = NoLink
            /\ pc' = [pc EXCEPT ![p] = "symlink"]
            /\ UNCHANGED <<result, failedAt>>
    /\ UNCHANGED <<versions_dir, bin, ver, force, resp, offset, fetched,
                   created, wroteAll, start, runs, last, textvars>>

\* main.rs:228: symlink(bin_path, link_path): EEXIST when anything is there
CreateSymlink(p) ==
    /\ pc[p] = "symlink"
    /\ IF launcher.kind # "absent"
       THEN /\ Fail(p, "IoError")
            /\ UNCHANGED launcher
       ELSE /\ launcher' = Symlink(ver[p])
            /\ pc' = [pc EXCEPT ![p] = "done"]
            /\ result' = [result EXCEPT ![p] = "Ok"]
            /\ UNCHANGED failedAt
    /\ UNCHANGED <<versions_dir, bin, ver, force, resp, offset, fetched,
                   created, wroteAll, start, runs, last, textvars>>

Running(p) == pc[p] \notin {"idle", "done", "failed", "panicked", "killed"}

Terminated(p) == pc[p] \in {"done", "failed", "panicked", "killed"}

\* the process is interrupted (a signal) between two of its steps
Interrupt(p) ==
    /\ Running(p)
    /\ pc' = [pc EXCEPT ![p] = "killed"]
    /\ result' = [result EXCEPT ![p] = "Killed"]
    /\ failedAt' = [failedAt EXCEPT ![p] = pc[p]]
    /\ UNCHANGED <<versions_dir, bin, launcher, ver, force, resp, offset,
                   fetched, created, wroteAll, start, runs, last, textvars>>

\* the process has exited; the shell is ready for the next invocation
Exit(p) ==
    /\ Terminated(p)
    /\ runs[p] < MaxRuns
    /\ pc' = [pc EXCEPT ![p] = "idle"]
    /\ last' = [ver |-> ver[p], force |-> force[p], result |-> result[p],
                at |-> failedAt[p], wrote |-> wroteAll[p]]
    /\ UNCHANGED <<versions_dir, bin, launcher, ver, force, resp, offset, result, failedAt,
                   fetched, created, wroteAll, start, runs, textvars>>

Step(p) ==
    \/ CreateVersionsDir(p)
    \/ CheckLocalPresence(p)
    \/ Download(p)
    \/ Normalize(p)
    \/ FileCreate(p)
    \/ WriteChunk(p)
    \/ SetPermissions(p)
    \/ LinkExists(p)
    \/ RemoveLink(p)
    \/ CreateSymlink(p)

Next == \E p \in Procs : Use(p) \/ Step(p) \/ Interrupt(p) \/ Exit(p)

Spec == Init /\ [][Next]_vars

NextRace == \E p \in Procs : UseConcurrently(p) \/ Step(p)

SpecRace == Init /\ [][NextRace]_vars

-----------------------------------------------------------------------------
(* Names and URLs: the strings built from a tool and a version, as sequences
   of tokens in which "-" and "." are tokens of their own *)

Tools == {"kops", "kubectl", "terraform"}

\* the versions whose names and URLs are built; pre is the pre-release part
TextVersions ==
    [major : 0..2, minor : {5, 10, 15, 16, 20}, patch : 0..MaxPatch,
     pre : {<<>>, <<"beta1">>}]

\* the text of a semantic version: major.minor.patch, then "-" and the
\* pre-release part when there is one
VersionString(v) ==
    <<ToString(v.major), ".", ToString(v.minor), ".", ToString(v.patch)>>
        \o (IF v.pre = <<>> THEN <<>> ELSE <<"-">> \o v.pre)

\* main.rs:151: format!("{}-{}", tool, version), the last component of bin_path
BinFileName(t, version) == <<t, "-">> \o version

\* the position of the last "-" of a string, 0 when it has none
LastDash(name) ==
    IF \E i \in 1..Len(name) : name[i] = "-"
    THEN CHOOSE i \in 1..Len(name) :
             /\ name[i] = "-"
             /\ \A j \in (i + 1)..Len(name) : name[j] # "-"
    ELSE 0

\* main.rs:55: filename.rsplitn(2, "-"): the pieces from the right, at most two
RSplitN2(name) ==
    IF LastDash(name) = 0 THEN <<name>>
    ELSE <<SubSeq(name, LastDash(name) + 1, Len(name)),
           SubSeq(name, 1, LastDash(name) - 1)>>

\* the requirement "> 1.15.0" of tool.rs:111
KopsRequirement == [major |-> 1, minor |-> 15, patch |-> 0, pre |-> <<>>]

\* semver's Predicate::is_greater: the numbers decide; on equal numbers a
\* requirement without a pre-release part is not exceeded
IsGreater(r, v) ==
    IF v.major # r.major THEN v.major > r.major
    ELSE IF v.minor # r.minor THEN v.minor > r.minor
    ELSE IF v.patch # r.patch THEN v.patch > r.patch
    ELSE r.pre # <<>> /\ v.pre = <<>>

\* semver's Predicate::pre_tag_is_compatible: a version with a pre-release
\* part matches only a requirement on the same numbers that has one too
PreTagIsCompatible(r, v) ==
    \/ v.pre = <<>>
    \/ /\ r.major = v.major
       /\ r.minor = v.minor
       /\ r.patch = v.patch
       /\ r.pre # <<>>

\* VersionReq::matches for a single ">" predicate
Matches(r, v) == IsGreater(r, v) /\ PreTagIsCompatible(r, v)

\* tool.rs:108-117: the URL of download_kops
KopsUrl(v) ==
    <<"https://github.com/kubernetes/kops/releases/download/">>
        \o (IF Matches(KopsRequirement, v) THEN <<"v">> ELSE <<>>)
        \o VersionString(v)
        \o <<"/kops-linux-amd64">>

InitText ==
    /\ versions_dir = FALSE
    /\ bin = [v \in Versions |-> NoFile]
    /\ launcher = NoLink
    /\ InitProcs
    /\ arg \in [tool : Tools, version : TextVersions]
    /\ link_name = <<>>
    /\ reported = NoReport
    /\ url = <<>>

\* main.rs:126, 147-153: a successful use leaves the launcher pointing at
\* <tool>-versions/<tool>-<version>
LinkBinary ==
    /\ link_name' = BinFileName(arg.tool, VersionString(arg.version))
    /\ UNCHANGED <<versions_dir, bin, launcher, pc, ver, force, resp, offset, result,
                   failedAt, fetched, created, wroteAll, start, runs, last,
                   arg, reported, url>>

\* main.rs:49-60: print_status
Status ==
    /\ reported' =
           IF link_name = <<>>
           THEN [tool |-> <<arg.tool>>, version |-> <<"not setup">>]
           ELSE IF Len(RSplitN2(link_name)) < 2
           THEN [tool |-> <<"panic">>, version |-> <<"panic">>]
           ELSE [tool |-> RSplitN2(link_name)[2], version |-> RSplitN2(link_name)[1]]
    /\ UNCHANGED <<versions_dir, bin, launcher, pc, ver, force, resp, offset, result,
                   failedAt, fetched, created, wroteAll, start, runs, last,
                   arg, link_name, url>>

\* tool.rs:107-117
DownloadKops ==
    /\ arg.tool = "kops"
    /\ url' = KopsUrl(arg.version)
    /\ UNCHANGED <<versions_dir, bin, launcher, pc, ver, force, resp, offset, result,
                   failedAt, fetched, created, wroteAll, start, runs, last,
                   arg, link_name, reported>>

NextText == LinkBinary \/ Status \/ DownloadKops

SpecText == InitText /\ [][NextText]_vars


-----------------------------------------------------------------------------
(* Claims *)

Finished(p) == pc[p] \in {"done", "failed", "panicked"}

\* C1: whenever switch_or_download finishes successfully, on the fast path
\* as on the fetch path, the versioned binary exists with mode 0700 and the
\* launcher is a symlink to exactly that path.
C1_SuccessPostcondition ==
    \A p \in Procs :
        pc[p] = "done" =>
            /\ bin[ver[p]].exists
            /\ bin[ver[p]].mode = ExecMode
            /\ launcher = Symlink(ver[p])

\* a successful fast-path run that found other permission bits on the binary
\* and the launcher pointing at another version
C1_Witness ==
    /\ pc[1] = "done"
    /\ ~fetched[1]
    /\ start[1].bin[ver[1]].mode # ExecMode
    /\ start[1].launcher.kind = "symlink"
    /\ start[1].launcher.target # ver[1]

\* the invocation p is the one that follows a successful run for the same
\* version, and has no force flag
SecondRun(p) ==
    /\ pc[p] # "idle"
    /\ last.result = "Ok"
    /\ last.ver = ver[p]
    /\ ~force[p]

\* C2: the second of two runs in succession for the same version without
\* force fetches nothing, never opens the versioned binary for writing, does
\* not fail, and ends with the filesystem as the first run left it.
C2_Idempotent ==
    \A p \in Procs :
        SecondRun(p) =>
            /\ ~fetched[p]
            /\ ~created[p]
            /\ bin = start[p].bin
            /\ ~Finished(p) \/ pc[p] = "done"
            /\ pc[p] = "done" => Snapshot = start[p]

C2_Witness == SecondRun(1) /\ pc[1] = "done" /\ runs[1] = 2

\* the steps of switch_or_download after the fetch branch was entered or skipped
PastCheck(p) ==
    pc[p] \in {"normalize", "create", "write", "chmod", "exists", "remove", "symlink", "done"}

\* C3: with force set and the versioned path already there, the invocation
\* fetches and rewrites the binary, and after its success the launcher points
\* at the same versioned path.
C3_ForceRefresh ==
    \A p \in Procs :
        (force[p] /\ pc[p] # "idle" /\ start[p].bin[ver[p]].exists) =>
            /\ PastCheck(p) => fetched[p]
            /\ pc[p] \in {"chmod", "exists", "remove", "symlink", "done"} =>
                   created[p] /\ wroteAll[p]
            /\ pc[p] = "done" =>
                   /\ bin[ver[p]].data = Artifact
                   /\ launcher = Symlink(ver[p])

\* a successful forced run for the version the launcher already pointed at
C3_Witness ==
    /\ pc[1] = "done"
    /\ force[1]
    /\ start[1].bin[ver[1]].exists
    /\ start[1].launcher = Symlink(ver[1])
    /\ fetched[1]

\* C4: a version that is no semantic version fails with InvalidVersion before
\* any I/O: nothing on the filesystem changes and no fetch is started.
C4_InvalidVersionBeforeIO ==
    \A p \in Procs :
        (pc[p] # "idle" /\ ~ValidSemver(ver[p])) =>
            /\ Snapshot = start[p]
            /\ ~fetched[p]
            /\ Finished(p) => result[p] = "InvalidVersion"

\* C5: a 404 ends in VersionNotAvailable and a missing Content-Length in
\* MissingLength, and in both cases the invocation wrote nothing to the
\* filesystem, whatever state it started from.
C5_FetchErrorNoWrite ==
    \A p \in Procs :
        /\ (pc[p] = "failed" /\ failedAt[p] = "download" /\ ValidSemver(ver[p])) =>
               result[p] \in {"RequestError", "VersionNotAvailable", "UnexpectedStatus",
                              "MissingLength", "InvalidLength", "MissingContentType"}
        /\ (pc[p] = "failed" /\ result[p] \in {"VersionNotAvailable", "MissingLength"}) =>
               Snapshot = start[p]


\* link_binary has returned to switch_or_download
ActivateReturned(p) ==
    \/ pc[p] = "done"
    \/ pc[p] = "failed" /\ failedAt[p] \in {"remove", "symlink"}

\* C6: whatever exists at the launcher path (a symlink with or without its
\* target, a regular file) is removed before the symlink is created, so
\* activate returns Ok and the launcher points at the versioned path.
C6_ActivateReplacesExisting ==
    \A p \in Procs :
        (pc[p] # "idle" /\ start[p].launcher.kind # "absent") =>
            /\ pc[p] = "symlink" => launcher = NoLink
            /\ ActivateReturned(p) => pc[p] = "done" /\ launcher = Symlink(ver[p])

\* the invocation p re-runs an operation that was interrupted in the middle
\* of the chunked write or between the removal and the creation of the link
RerunAfterInterrupt(p) ==
    /\ pc[p] # "idle"
    /\ last.result = "Killed"
    /\ last.at \in {"write", "symlink"}
    /\ last.ver = ver[p]
    /\ last.force = force[p]

\* C7: re-running an interrupted operation to completion leaves the launcher
\* pointing at the versioned path and, where the interruption cut the write
\* short, the complete artifact at that path.
C7_RerunRepairs ==
    \A p \in Procs :
        (RerunAfterInterrupt(p) /\ pc[p] = "done") =>
            /\ launcher = Symlink(ver[p])
            /\ last.at = "write" => bin[ver[p]].data = Artifact

\* two invocations for different versions whose binaries were both present
\* when each started have both come back from link_binary
ActivateRaceOver ==
    /\ ActivateReturned(1) /\ ActivateReturned(2)
    /\ ver[1] # ver[2]
    /\ \A p, q \in Procs : start[p].bin[ver[q]].exists

\* C8: once two concurrent invocations for different, present versions have
\* ended, the launcher is a symlink to the versioned path of one of them.
C8_ActivateRaceLeavesLink ==
    ActivateRaceOver =>
        launcher.kind = "symlink" /\ launcher.target \in {ver[1], ver[2]}

\* The race alone never loses the launcher: the same statement for launchers
\* that Path::exists sees or that are absent when the invocations start.
ActivateRaceLeavesLinkUnlessDangling ==
    (/\ ActivateRaceOver
     /\ \A p \in Procs : start[p].launcher.kind = "absent"
                         \/ PathExists(start[p].launcher, start[p].bin)) =>
        launcher.kind = "symlink" /\ launcher.target \in {ver[1], ver[2]}

\* C9: once two invocations that fetched the same version have both written
\* the stream to its end, the versioned path holds exactly the artifact.
C9_PersistRaceComplete ==
    \A p, q \in Procs :
        (p # q /\ ver[p] = ver[q] /\ wroteAll[p] /\ wroteAll[q]) =>
            bin[ver[p]].data = Artifact

\* both writers were between the end of their write and set_permissions at
\* the same time, so their writes overlapped
C9_Witness ==
    /\ ver[1] = ver[2]
    /\ wroteAll[1] /\ wroteAll[2]
    /\ pc[1] = "chmod" /\ pc[2] = "chmod"

\* use(B) without force, started with the launcher pointing at version A's
\* path and B's binary on disk, has ended
RelinkOver(p, a) ==
    /\ Finished(p)
    /\ ~force[p]
    /\ a # ver[p]
    /\ ValidSemver(a)
    /\ start[p].launcher = Symlink(a)
    /\ start[p].bin[ver[p]].exists

\* C10: relinking from version A to a downloaded version B points the
\* launcher at B's path and leaves A's binary as it was.
C10_Relink ==
    \A p \in Procs : \A a \in Versions :
        RelinkOver(p, a) =>
            /\ launcher = Symlink(ver[p])
            /\ bin[a] = start[p].bin[a]

\* Relinking does what it says when A's binary is on disk.
RelinkWhenLinkedBinaryPresent ==
    \A p \in Procs : \A a \in Versions :
        (RelinkOver(p, a) /\ start[p].bin[a].exists) =>
            /\ launcher = Symlink(ver[p])
            /\ bin[a] = start[p].bin[a]


\* the invocation p re-runs, without force, the operation whose activate
\* failed after its write had succeeded
RerunAfterActivateFailed(p) ==
    /\ pc[p] # "idle"
    /\ last.result = "IoError"
    /\ last.at \in {"remove", "symlink"}
    /\ last.wrote
    /\ last.ver = ver[p]
    /\ ~force[p]

\* C11: when activate fails after persist succeeded the versioned binary stays
\* complete on disk, and a re-run without force fetches nothing: it goes from
\* the presence check to set-permissions and activation.
C11_RerunSkipsFetch ==
    \A p \in Procs :
        /\ (pc[p] = "failed" /\ failedAt[p] \in {"remove", "symlink"} /\ wroteAll[p]) =>
               bin[ver[p]].exists /\ bin[ver[p]].data = Artifact
        /\ RerunAfterActivateFailed(p) =>
               /\ start[p].bin[ver[p]].exists
               /\ start[p].bin[ver[p]].data = Artifact
               /\ ~fetched[p] /\ ~created[p]
               /\ pc[p] \notin {"download", "normalize", "create", "write"}
               /\ bin[ver[p]].data = Artifact

\* the re-run has reached link_binary without a fetch
C11_Witness ==
    /\ RerunAfterActivateFailed(1)
    /\ pc[1] \in {"exists", "remove", "symlink"}
    /\ ~fetched[1]


\* the invocation p has not entered link_binary, or ended before it
BeforeActivate(p) ==
    \/ pc[p] \in {"mkdir", "check", "download", "normalize", "create", "write", "chmod",
                  "exists"}
    \/ pc[p] \in {"failed", "panicked"} /\ failedAt[p] \notin {"remove", "symlink"}

C13_NeverDeleted ==
    [][\A v \in Versions : bin[v].exists => bin'[v].exists]_vars

\* a second invocation rewrote one binary and ended, with another one on disk
C13_Witness ==
    /\ runs[1] = 2
    /\ Terminated(1)
    /\ created[1]
    /\ \E v \in Versions : v # ver[1] /\ bin[v].exists /\ start[1].bin[v].exists


\* the invocation p was handed a zip body in which no file entry comes first
\* and is past the normalization of the stream
ZeroEntryArchive(p) ==
    /\ pc[p] \notin {"idle", "normalize", "killed"}
    /\ resp[p].content_type = "application/zip"
    /\ ReadZipfile(resp[p].head) # "Some"

\* C15: a zip body without entries ends the operation in an ordinary,
\* propagated error (EmptyArchive, the code's zip error), with nothing
\* written to the versioned path and the launcher unchanged.
C15_EmptyArchiveIsAnError ==
    \A p \in Procs :
        ZeroEntryArchive(p) =>
            /\ pc[p] = "failed"
            /\ result[p] = "ZipError"
            /\ bin = start[p].bin
            /\ launcher = start[p].launcher


\* C16: within one invocation the mode is set only after the write has run
\* to the end of the stream, never after a failed or partial write, and the
\* launcher symlink is created only after both.
C16_StepOrder ==
    \A p \in Procs :
        /\ pc[p] \in {"chmod", "exists", "remove", "symlink", "done"} =>
               /\ fetched[p] => created[p] /\ wroteAll[p]
               /\ created[p] => bin[ver[p]].data = Artifact
        /\ pc[p] \in {"exists", "remove", "symlink", "done"} =>
               bin[ver[p]].mode = ExecMode
        /\ (~BeforeActivate(p) /\ pc[p] # "idle" /\ launcher = Symlink(ver[p])
               /\ start[p].launcher # Symlink(ver[p])) =>
               bin[ver[p]].mode = ExecMode /\ (fetched[p] => wroteAll[p])
        /\ (pc[p] = "failed" /\ failedAt[p] \in {"create", "write"}) =>
               /\ ~wroteAll[p]
               /\ launcher = start[p].launcher
               /\ bin[ver[p]].mode =
                      IF start[p].bin[ver[p]].exists THEN start[p].bin[ver[p]].mode
                      ELSE CreateMode

\* a run that fetched, wrote the whole stream, and then linked the launcher
C16_Witness ==
    /\ pc[1] = "done"
    /\ fetched[1] /\ wroteAll[1]
    /\ ~start[1].bin[ver[1]].exists
    /\ launcher = Symlink(ver[1])


\* two invocations, neither of which found a dangling launcher when it
\* started, have both come back from link_binary
ActivateTwiceOver ==
    /\ ActivateReturned(1) /\ ActivateReturned(2)
    /\ \A p \in Procs : start[p].launcher.kind = "absent"
                        \/ PathExists(start[p].launcher, start[p].bin)

\* C17: when two invocations run activate concurrently, both calls return Ok
\* in every interleaving.
C17_BothActivatesOk ==
    ActivateTwiceOver => pc[1] = "done" /\ pc[2] = "done"


\* a forced invocation for a binary that was on disk ended in the fetch or
\* in the normalization of the stream
ForcedFetchFailed(p) ==
    /\ force[p]
    /\ start[p].bin[ver[p]].exists
    /\ \/ pc[p] = "failed" /\ failedAt[p] \in {"download", "normalize"}
       \/ pc[p] = "panicked"

\* C18: with force set and the binary present, a failed fetch or a failed
\* normalization leaves the binary's contents and mode as they were: the
\* destination is opened only after both have succeeded.
C18_FailedRefreshKeepsBinary ==
    \A p \in Procs :
        /\ ForcedFetchFailed(p) => ~created[p] /\ bin[ver[p]] = start[p].bin[ver[p]]
        /\ (force[p] /\ pc[p] \in {"download", "normalize", "create"}) =>
               ~created[p] /\ bin[ver[p]] = start[p].bin[ver[p]]

\* a forced refresh of a complete binary that the zip reader rejected
C18_Witness ==
    /\ ForcedFetchFailed(1)
    /\ failedAt[1] = "normalize"
    /\ start[1].bin[ver[1]].data = Artifact

\* the order of semantic versions: the numbers first; on equal numbers a
\* version with a pre-release part comes before the one without
SemverGreater(a, b) ==
    IF a.major # b.major THEN a.major > b.major
    ELSE IF a.minor # b.minor THEN a.minor > b.minor
    ELSE IF a.patch # b.patch THEN a.patch > b.patch
    ELSE a.pre = <<>> /\ b.pre # <<>>

\* C14: the kops download URL has a "v" immediately before the version
\* exactly when the version is greater than 1.15.0 in semantic-version order,
\* versions with a pre-release part included
C14_KopsPrefixIffGreater ==
    url # <<>> =>
        /\ SemverGreater(arg.version, KopsRequirement) =>
               SubSeq(url, 2, Len(url) - 1) = <<"v">> \o VersionString(arg.version)
        /\ ~SemverGreater(arg.version, KopsRequirement) =>
               SubSeq(url, 2, Len(url) - 1) = VersionString(arg.version)

\* the kops prefix rule for the versions without a pre-release part
KopsPrefixOnReleases ==
    (url # <<>> /\ arg.version.pre = <<>>) => C14_KopsPrefixIffGreater

KopsPrefixOnReleasesReached ==
    /\ url # <<>>
    /\ arg.version = [major |-> 1, minor |-> 20, patch |-> 0, pre |-> <<>>]
    /\ url[2] = "v"

StatusAfterUse == link_name # <<>> /\ reported \notin {NoReport,
                      [tool |-> <<arg.tool>>, version |-> <<"not setup">>]}

\* C19: after a successful use, status reports exactly the tool name and
\* exactly the version string, versions with a pre-release part included
C19_StatusRoundTrip ==
    StatusAfterUse =>
        /\ reported.tool = <<arg.tool>>
        /\ reported.version = VersionString(arg.version)

\* the status round trip for the versions without a pre-release part
StatusRoundTripOnReleases ==
    (StatusAfterUse /\ arg.version.pre = <<>>) => C19_StatusRoundTrip

StatusRoundTripOnReleasesReached ==
    /\ StatusAfterUse
    /\ arg.version.pre = <<>>
    /\ reported.version = <<"1", ".", "5", ".", "0">>

=============================================================================
